---- MODULE Spec2Model ----
(***************************************************************************)
(* Model of update/provisioner.go: Provisioner.Provision uploads three     *)
(* scripts, then loops "update; if exit 101 then restart", where restart   *)
(* runs two retryable blocks (forced restart; probe + abort + pending      *)
(* reboot check).  Time is counted in seconds.  The clock `now` is the     *)
(* time elapsed since the current retry.Config.Run started, which is when  *)
(* its StartTimeout timer is armed.                                        *)
(***************************************************************************)
EXTENDS Integers, Sequences, FiniteSets, TLC

VARIABLES
    pc,             \* position of Provision
    err,            \* the error Provision returned (NoErr while running or on success)
    cancelled,      \* ctx.Done() is closed
    RestartTimeout, \* p.config.RestartTimeout after Prepare, in seconds
    now,            \* seconds since the current retryable block started
    attempts,       \* calls of f made by the current retryable block
    nOps,           \* history: how often each upload and the update script was issued
    updateExits,    \* history: the exit status of every update run, -1 for a transport error
    last,           \* history: the most recent upload / remote command and its outcome
    restartsDone,   \* history: restart sequences that returned nil
    seqRestartOk,   \* history: forced restarts with exit 0 in the current sequence
    pendingFirst,   \* history: `now` at the first pending-reboot check of the block, -1 if none
    probes,         \* history: test restarts issued by the current block
    cancelMid,      \* history: ctx became done in the current block, after its first command
    config,         \* p.config: SearchCriteria, Filters, UpdateLimit after Prepare
    command         \* what windowsUpdateCommand returned, <<>> before the call

vars == <<pc, err, cancelled, RestartTimeout, now, attempts, nOps, updateExits,
          last, restartsDone, seqRestartOk, pendingFirst, probes, cancelMid,
          config, command>>

-----------------------------------------------------------------------------
(* Bounds of the model *)

MaxUpdateRuns == 3
MaxCmdTime == 3
MaxTimeout == 11

(* Program constants *)

retryableDelay == 5
RestartRequired == 101

-----------------------------------------------------------------------------
(* The remote operations, named as in the const block *)

Uploads == {"elevatedPath", "pendingRebootElevatedPath", "windowsUpdatePath"}

Commands == {"elevatedCommand", "restartCommand", "testRestartCommand",
             "abortTestRestartCommand", "pendingRebootElevatedCommand"}

Operations == Uploads \cup Commands

(* What the communicator can answer: a transport error, or an exit status *)
UpdateStatuses == {0, RestartRequired, 1, 2}
ShutdownStatuses == {0, 1}
PendingStatuses == {0, RestartRequired, 1}

Outcomes(statuses) ==
    {[transport |-> TRUE, status |-> 0]} \cup
    {[transport |-> FALSE, status |-> s] : s \in statuses}

UploadOutcomes == Outcomes({0})

CmdTimes == 0..MaxCmdTime

Timeouts == 1..MaxTimeout

(* error values *)
NoErr == [kind |-> "nil", cmd |-> "", status |-> 0]
TransportErr(c) == [kind |-> "transport", cmd |-> c, status |-> 0]
StatusErr(c, s) == [kind |-> "status", cmd |-> c, status |-> s]

NoOp == [cmd |-> "", out |-> [transport |-> FALSE, status |-> 0]]

-----------------------------------------------------------------------------
(* retryable: retry.Config{RetryDelay, StartTimeout}.Run(ctx, f) *)

(* Mutant: the delay is given in milliseconds *)
RetryDelay_millis == retryableDelay \div 1000

(* RetryDelay: func() time.Duration { return retryableDelay } *)
RetryDelay == retryableDelay

(* Mutant: the timeout is scaled as if it were given in minutes *)
StartTimeout_minutes == RestartTimeout * 60

(* StartTimeout: p.config.RestartTimeout *)
StartTimeout == RestartTimeout

(* The timer armed when the block started has expired at elapsed time t.
   A StartTimeout of 0 arms no timer. *)
StartTimeoutFired(t) == StartTimeout # 0 /\ t >= StartTimeout

(* After a failed attempt the block returns the attempt's error when ctx is
   done or the timer has expired; otherwise it sleeps and calls f again. *)
RunGivesUp(t) == cancelled \/ StartTimeoutFired(t)

(* The positions inside the two retryable blocks of restart *)
FirstBlockPcs == {"restartCommand", "restartSleep"}

SecondBlockPcs == {"testRestartCommand", "abortTestRestartCommand",
                   "pendingRebootElevatedCommand", "availableSleep"}

(* A new retryable block starts: timer armed, no attempt made yet *)
RunStart ==
    /\ now' = 0
    /\ attempts' = 0
    /\ pendingFirst' = -1
    /\ probes' = 0
    /\ cancelMid' = FALSE

(* An attempt failed with e at elapsed time t: the block either returns e,
   which restart and then Provision return, or sleeps before the next attempt *)
AttemptFailed(e, t, sleepPc) ==
    /\ now' = t
    /\ attempts' = attempts + 1
    /\ IF RunGivesUp(t)
       THEN pc' = "done" /\ err' = e
       ELSE pc' = sleepPc /\ err' = err

(* history of the operations issued *)
Counted == Uploads \cup {"elevatedCommand"}

Issue(c, o) ==
    /\ nOps' = IF c \in Counted THEN [nOps EXCEPT ![c] = @ + 1] ELSE nOps
    /\ updateExits' = IF c = "elevatedCommand"
                      THEN Append(updateExits, IF o.transport THEN -1 ELSE o.status)
                      ELSE updateExits
    /\ last' = [cmd |-> c, out |-> o]

-----------------------------------------------------------------------------
(* Config.  A string is the sequence of its bytes.  A []string is nil or a
   sequence of strings: `isNil` tells the nil slice from an empty one. *)

NilSlice == [isNil |-> TRUE, elems |-> <<>>]

Slice(elems) == [isNil |-> FALSE, elems |-> elems]

(* p.config after Prepare of a template that sets none of search_criteria,
   filters and update_limit *)
DefaultConfig == [SearchCriteria |-> <<>>, Filters |-> NilSlice, UpdateLimit |-> 1000]

-----------------------------------------------------------------------------
(* Provision *)

Init ==
    /\ pc = "uploadElevated"
    /\ err = NoErr
    /\ cancelled = FALSE
    /\ RestartTimeout \in Timeouts
    /\ now = 0
    /\ attempts = 0
    /\ nOps = [c \in Counted |-> 0]
    /\ updateExits = <<>>
    /\ last = NoOp
    /\ restartsDone = 0
    /\ seqRestartOk = 0
    /\ pendingFirst = -1
    /\ probes = 0
    /\ cancelMid = FALSE
    /\ config = DefaultConfig
    /\ command = <<>>

(* Mutant: the error of an upload is dropped *)
Upload_errorIgnored(path, next) ==
    \E o \in UploadOutcomes :
        /\ UNCHANGED <<config, command>>
        /\ Issue(path, o)
        /\ pc' = next
        /\ err' = err
        /\ UNCHANGED <<cancelled, RestartTimeout, now, attempts,
                       restartsDone, seqRestartOk, pendingFirst, probes, cancelMid>>

(* An upload: on error Provision returns it, else it goes on to `next` *)
Upload(path, next) ==
    \E o \in UploadOutcomes :
        /\ UNCHANGED <<config, command>>
        /\ Issue(path, o)
        /\ IF o.transport
           THEN pc' = "done" /\ err' = TransportErr(path)
           ELSE pc' = next /\ err' = err
        /\ UNCHANGED <<cancelled, RestartTimeout, now, attempts,
                       restartsDone, seqRestartOk, pendingFirst, probes, cancelMid>>

(* elevatedTemplate.Execute failed: returned before the upload *)
TemplateFailed(at) ==
    /\ UNCHANGED <<config, command>>
    /\ pc = at
    /\ pc' = "done"
    /\ err' = [kind |-> "template", cmd |-> at, status |-> 0]
    /\ UNCHANGED <<cancelled, RestartTimeout, now, attempts, nOps, updateExits, last,
                   restartsDone, seqRestartOk, pendingFirst, probes, cancelMid>>

UploadElevated ==
    /\ pc = "uploadElevated"
    /\ Upload("elevatedPath", "uploadPendingReboot")

UploadPendingReboot ==
    /\ pc = "uploadPendingReboot"
    /\ Upload("pendingRebootElevatedPath", "uploadScript")

UploadScript ==
    /\ pc = "uploadScript"
    /\ Upload("windowsUpdatePath", "update")

(* Mutant: every non-zero exit status asks for a restart *)
updateResult_nonZeroRestarts(exitStatus) ==
    IF exitStatus = 0 THEN <<FALSE, NoErr>> ELSE <<TRUE, NoErr>>

(* update's result for an exit status: <<restartPending, err>> *)
updateResult(exitStatus) ==
    CASE exitStatus = 0 -> <<FALSE, NoErr>>
      [] exitStatus = RestartRequired -> <<TRUE, NoErr>>
      [] OTHER -> <<FALSE, StatusErr("elevatedCommand", exitStatus)>>

(* Mutant: the test of restartPending is inverted *)
loopAfterUpdate_inverted(r) ==
    IF r[2] # NoErr THEN <<"done", r[2]>>
    ELSE IF r[1] THEN <<"done", NoErr>>
    ELSE <<"restartCommand", NoErr>>

(* Mutant: the for loop gives up after its second restart *)
loopAfterUpdate_capped(r) ==
    IF r[2] # NoErr THEN <<"done", r[2]>>
    ELSE IF ~r[1] THEN <<"done", NoErr>>
    ELSE IF restartsDone >= 2
         THEN <<"done", StatusErr("elevatedCommand", RestartRequired)>>
    ELSE <<"restartCommand", NoErr>>

(* What the for loop does with update's result: the next position and the
   error returned *)
loopAfterUpdate(r) ==
    IF r[2] # NoErr THEN <<"done", r[2]>>
    ELSE IF ~r[1] THEN <<"done", NoErr>>
    ELSE <<"restartCommand", NoErr>>

(* One iteration of the for loop up to the call of restart: p.update, then
   return on error, return nil when no restart is pending, else enter the
   first retryable block of restart. *)
Update ==
    /\ UNCHANGED <<config, command>>
    /\ pc = "update"
    /\ nOps["elevatedCommand"] < MaxUpdateRuns
    /\ \E o \in Outcomes(UpdateStatuses) :
        LET r == IF o.transport
                 THEN <<FALSE, TransportErr("elevatedCommand")>>
                 ELSE updateResult(o.status)
            n == loopAfterUpdate(r)
        IN  /\ Issue("elevatedCommand", o)
            /\ pc' = n[1]
            /\ err' = n[2]
            /\ IF n[1] = "restartCommand"
               THEN RunStart /\ seqRestartOk' = 0
               ELSE UNCHANGED <<now, attempts, pendingFirst, probes, cancelMid,
                                 seqRestartOk>>
            /\ UNCHANGED <<cancelled, RestartTimeout, restartsDone>>

(* Mutants: the exit status of the command is not read *)
restartAttempt_statusIgnored(o) ==
    IF o.transport THEN TransportErr("restartCommand") ELSE NoErr

testRestartAttempt_statusIgnored(o) ==
    IF o.transport THEN TransportErr("testRestartCommand") ELSE NoErr

(* Mutants: the exit status of abortTestRestartCommand is read; of the exit
   statuses of pendingRebootElevatedCommand only 101 is a failure *)
abortTestRestartAttempt_statusChecked(o) ==
    IF o.transport THEN TransportErr("abortTestRestartCommand")
    ELSE IF o.status # 0 THEN StatusErr("abortTestRestartCommand", o.status)
    ELSE NoErr

pendingRebootAttempt_only101(o) ==
    IF o.transport THEN TransportErr("pendingRebootElevatedCommand")
    ELSE IF o.status = RestartRequired
         THEN StatusErr("pendingRebootElevatedCommand", o.status)
    ELSE NoErr

(* The first closure of restart: the error it returns for the outcome of
   restartCommand, NoErr for nil *)
restartAttempt(o) ==
    IF o.transport THEN TransportErr("restartCommand")
    ELSE IF o.status # 0 THEN StatusErr("restartCommand", o.status)
    ELSE NoErr

(* The second closure of restart, in its three commands: the error each makes
   the closure return, NoErr when the closure goes on (or returns nil) *)
testRestartAttempt(o) ==
    IF o.transport THEN TransportErr("testRestartCommand")
    ELSE IF o.status # 0 THEN StatusErr("testRestartCommand", o.status)
    ELSE NoErr

abortTestRestartAttempt(o) ==
    IF o.transport THEN TransportErr("abortTestRestartCommand") ELSE NoErr

pendingRebootAttempt(o) ==
    IF o.transport THEN TransportErr("pendingRebootElevatedCommand")
    ELSE IF o.status # 0 THEN StatusErr("pendingRebootElevatedCommand", o.status)
    ELSE NoErr

(* Mutants: Provision returns nil when restart did; the uploads are inside
   the for loop *)
afterRestart_returns == "done"

afterRestart_uploadsAgain == "uploadElevated"

(* Where the for loop goes when restart returned nil *)
afterRestart == "update"

(* restart, first block: one attempt runs restartCommand *)
Restart ==
    /\ UNCHANGED <<config, command>>
    /\ pc = "restartCommand"
    /\ \E o \in Outcomes(ShutdownStatuses), dt \in CmdTimes :
        LET e == restartAttempt(o)
        IN  /\ Issue("restartCommand", o)
            /\ seqRestartOk' = IF ~o.transport /\ o.status = 0
                               THEN seqRestartOk + 1 ELSE seqRestartOk
            /\ IF e # NoErr
               THEN AttemptFailed(e, now + dt, "restartSleep")
               ELSE \* the block returns nil
                    /\ pc' = "waitAvailable"
                    /\ now' = now + dt
                    /\ attempts' = attempts + 1
                    /\ err' = err
            /\ UNCHANGED <<cancelled, RestartTimeout, restartsDone, pendingFirst,
                           probes, cancelMid>>

(* time.Sleep(retryDelay()) between two attempts of the first block *)
RestartSleep ==
    /\ UNCHANGED <<config, command>>
    /\ pc = "restartSleep"
    /\ now' = now + RetryDelay
    /\ pc' = "restartCommand"
    /\ UNCHANGED <<err, cancelled, RestartTimeout, attempts, nOps, updateExits, last,
                   restartsDone, seqRestartOk, pendingFirst, probes, cancelMid>>

(* Mutant: the second block goes on with the timer of the first *)
WaitAvailable_timerShared ==
    /\ UNCHANGED <<config, command>>
    /\ pc = "waitAvailable"
    /\ pc' = "testRestartCommand"
    /\ attempts' = 0
    /\ pendingFirst' = -1
    /\ probes' = 0
    /\ cancelMid' = FALSE
    /\ UNCHANGED <<err, cancelled, RestartTimeout, now, nOps, updateExits, last,
                   restartsDone, seqRestartOk>>

(* restart goes on to its second retryable block *)
WaitAvailable ==
    /\ UNCHANGED <<config, command>>
    /\ pc = "waitAvailable"
    /\ pc' = "testRestartCommand"
    /\ RunStart
    /\ UNCHANGED <<err, cancelled, RestartTimeout, nOps, updateExits, last,
                   restartsDone, seqRestartOk>>

(* Mutant: after a probe that exited 0 the closure goes straight to the
   pending-reboot check *)
TestRestart_abortSkipped ==
    /\ UNCHANGED <<config, command>>
    /\ pc = "testRestartCommand"
    /\ \E o \in Outcomes(ShutdownStatuses), dt \in CmdTimes :
        LET e == testRestartAttempt(o)
        IN  /\ Issue("testRestartCommand", o)
            /\ probes' = probes + 1
            /\ IF e # NoErr
               THEN AttemptFailed(e, now + dt, "availableSleep")
               ELSE /\ pc' = "pendingRebootElevatedCommand"
                    /\ now' = now + dt
                    /\ UNCHANGED <<err, attempts>>
            /\ UNCHANGED <<cancelled, RestartTimeout, restartsDone, seqRestartOk,
                           pendingFirst, cancelMid>>

(* restart, second block: an attempt starts with testRestartCommand *)
TestRestart ==
    /\ UNCHANGED <<config, command>>
    /\ pc = "testRestartCommand"
    /\ \E o \in Outcomes(ShutdownStatuses), dt \in CmdTimes :
        LET e == testRestartAttempt(o)
        IN  /\ Issue("testRestartCommand", o)
            /\ probes' = probes + 1
            /\ IF e # NoErr
               THEN AttemptFailed(e, now + dt, "availableSleep")
               ELSE /\ pc' = "abortTestRestartCommand"
                    /\ now' = now + dt
                    /\ UNCHANGED <<err, attempts>>
            /\ UNCHANGED <<cancelled, RestartTimeout, restartsDone, seqRestartOk,
                           pendingFirst, cancelMid>>

(* ... goes on with abortTestRestartCommand, whose exit status is not read *)
AbortTestRestart ==
    /\ UNCHANGED <<config, command>>
    /\ pc = "abortTestRestartCommand"
    /\ \E o \in Outcomes(ShutdownStatuses), dt \in CmdTimes :
        LET e == abortTestRestartAttempt(o)
        IN  /\ Issue("abortTestRestartCommand", o)
            /\ IF e # NoErr
               THEN AttemptFailed(e, now + dt, "availableSleep")
               ELSE /\ pc' = "pendingRebootElevatedCommand"
                    /\ now' = now + dt
                    /\ UNCHANGED <<err, attempts>>
            /\ UNCHANGED <<cancelled, RestartTimeout, restartsDone, seqRestartOk,
                           pendingFirst, probes, cancelMid>>

(* ... and ends with pendingRebootElevatedCommand; exit 0 ends the block and
   restart returns nil, so the for loop calls update again *)
PendingReboot ==
    /\ UNCHANGED <<config, command>>
    /\ pc = "pendingRebootElevatedCommand"
    /\ \E o \in Outcomes(PendingStatuses), dt \in CmdTimes :
        LET e == pendingRebootAttempt(o)
        IN  /\ Issue("pendingRebootElevatedCommand", o)
            /\ pendingFirst' = IF pendingFirst = -1 THEN now ELSE pendingFirst
            /\ IF e # NoErr
               THEN /\ AttemptFailed(e, now + dt, "availableSleep")
                    /\ UNCHANGED restartsDone
               ELSE /\ restartsDone' = restartsDone + 1
                    /\ pc' = afterRestart
                    /\ now' = now + dt
                    /\ attempts' = attempts + 1
                    /\ err' = err
            /\ UNCHANGED <<cancelled, RestartTimeout, seqRestartOk, probes, cancelMid>>

(* time.Sleep(retryDelay()) between two attempts of the second block *)
AvailableSleep ==
    /\ UNCHANGED <<config, command>>
    /\ pc = "availableSleep"
    /\ now' = now + RetryDelay
    /\ pc' = "testRestartCommand"
    /\ UNCHANGED <<err, cancelled, RestartTimeout, attempts, nOps, updateExits, last,
                   restartsDone, seqRestartOk, pendingFirst, probes, cancelMid>>

(* The caller cancels ctx, at any moment while Provision runs *)
Cancel ==
    /\ UNCHANGED <<config, command>>
    /\ pc # "done"
    /\ ~cancelled
    /\ cancelled' = TRUE
    /\ cancelMid' = /\ pc \in FirstBlockPcs \cup SecondBlockPcs
                    /\ ~(pc \in {"restartCommand", "testRestartCommand"}
                         /\ attempts = 0)
    /\ UNCHANGED <<pc, err, RestartTimeout, now, attempts, nOps, updateExits, last,
                   restartsDone, seqRestartOk, pendingFirst, probes>>

Next ==
    \/ UploadElevated
    \/ TemplateFailed("uploadElevated")
    \/ UploadPendingReboot
    \/ TemplateFailed("uploadPendingReboot")
    \/ UploadScript
    \/ Update
    \/ Restart
    \/ RestartSleep
    \/ WaitAvailable
    \/ TestRestart
    \/ AbortTestRestart
    \/ PendingReboot
    \/ AvailableSleep
    \/ Cancel

Spec == Init /\ [][Next]_vars

-----------------------------------------------------------------------------
(* Properties *)

Ok(o) == ~o.transport /\ o.status = 0

Succeeded == pc = "done" /\ err = NoErr

UploadPcs == {"uploadElevated", "uploadPendingReboot", "uploadScript"}

RestartPcs == FirstBlockPcs \cup {"waitAvailable"} \cup SecondBlockPcs

RetriedCommands == Commands \ {"elevatedCommand"}

nUpdates == Len(updateExits)

(* C1: when the update script exits 101 on its first k runs and 0 on run k+1,
   Provision has made exactly k+1 update runs and k complete restart
   sequences, has returned nil, and its last command is the update run; update
   runs and restart sequences alternate: a restart sequence runs only after an
   update run that exited 101, and an update run only when every earlier one
   was followed by a complete restart sequence. *)
C1_UpdateRestartAlternate ==
    /\ (/\ nUpdates > 0
        /\ \A i \in 1..(nUpdates - 1) : updateExits[i] = RestartRequired
        /\ updateExits[nUpdates] = 0)
       => /\ Succeeded
          /\ nOps["elevatedCommand"] = nUpdates
          /\ restartsDone = nUpdates - 1
          /\ last = [cmd |-> "elevatedCommand",
                     out |-> [transport |-> FALSE, status |-> 0]]
    /\ \A i \in 1..(nUpdates - 1) : updateExits[i] = RestartRequired
    /\ pc \in RestartPcs
       => /\ nUpdates = restartsDone + 1
          /\ updateExits[nUpdates] = RestartRequired
    /\ pc = "update" => nUpdates = restartsDone
    /\ pc = "done" /\ nUpdates > 0 => nUpdates = restartsDone + 1

C1_Witness == Succeeded /\ nUpdates = 3 /\ restartsDone = 2

(* C2: when an update run ends with an exit status other than 0 and 101,
   Provision has returned the error that carries this status, and the update
   run is still the most recent command: nothing was issued after it. *)
C2_OtherStatusFatal ==
    (nUpdates > 0 /\ updateExits[nUpdates] \notin {0, RestartRequired, -1})
    => /\ pc = "done"
       /\ err = StatusErr("elevatedCommand", updateExits[nUpdates])
       /\ last = [cmd |-> "elevatedCommand",
                  out |-> [transport |-> FALSE, status |-> updateExits[nUpdates]]]

C2_Witness ==
    /\ pc = "done"
    /\ err = StatusErr("elevatedCommand", 2)
    /\ restartsDone = 1

(* C3: Provision returns nil only when its most recent command is an update
   run that exited 0; when a restart sequence has completed (its pending
   reboot check exited 0 and nothing was issued since), Provision has not
   returned and is about to run update. *)
C3_NoSuccessFromRestarting ==
    /\ Succeeded => last = [cmd |-> "elevatedCommand",
                            out |-> [transport |-> FALSE, status |-> 0]]
    /\ (last.cmd = "pendingRebootElevatedCommand" /\ Ok(last.out))
       => pc = "update" /\ err = NoErr

C3_Witness ==
    /\ last.cmd = "pendingRebootElevatedCommand"
    /\ Ok(last.out)
    /\ pc = "update"
    /\ restartsDone = 2

(* C4: when an upload or an update run ended with a transport error, Provision
   has returned that error and the failed operation is the most recent one;
   after a failed upload no later upload and no update run was made. *)
C4_TransportErrorFatal ==
    (last.out.transport /\ last.cmd \in Counted)
    => /\ pc = "done"
       /\ err = TransportErr(last.cmd)
       /\ last.cmd \in Uploads => nUpdates = 0
       /\ last.cmd = "elevatedPath"
          => nOps["pendingRebootElevatedPath"] = 0 /\ nOps["windowsUpdatePath"] = 0
       /\ last.cmd = "pendingRebootElevatedPath" => nOps["windowsUpdatePath"] = 0
       /\ last.cmd = "elevatedCommand" => updateExits[nUpdates] = -1

C4_Witness ==
    /\ last = [cmd |-> "elevatedCommand", out |-> [transport |-> TRUE, status |-> 0]]
    /\ restartsDone = 1
    /\ pc = "done"

(* C5: no script is uploaded twice, and once the first update run has been
   made, or Provision is anywhere in its loop, each of the three scripts has
   been uploaded exactly once, however many restart sequences there were. *)
C5_UploadsOnce ==
    /\ \A u \in Uploads : nOps[u] <= 1
    /\ (nUpdates > 0 \/ pc \in RestartPcs \cup {"update"})
       => \A u \in Uploads : nOps[u] = 1

C5_Witness ==
    /\ restartsDone = 2
    /\ nUpdates = 3
    /\ \A u \in Uploads : nOps[u] = 1

(* A retryable block returned the error of its last attempt, and so did
   restart and Provision *)
GaveUp == pc = "done" /\ err.cmd \in RetriedCommands

SleepPcs == {"restartSleep", "availableSleep"}

AttemptStartPcs == {"restartCommand", "testRestartCommand"}

(* C6, as amended: a restart sequence has two retryable blocks, the forced
   restart, and the test restart, its abort and the pending reboot check
   together in every attempt.  Each block's timer starts with its own first
   attempt; a failed attempt is retried only while the block's own timeout has
   not expired, and the block gives up, and Provision returns the error, only
   once it has expired or ctx is done.  A failed abort or pending reboot check
   is retried from the test restart. *)
C6_TwoBlocksOwnBudget ==
    /\ (pc \in AttemptStartPcs /\ attempts = 0) => now = 0
    /\ pc \in SleepPcs => now < RestartTimeout
    /\ GaveUp => err # NoErr /\ (cancelled \/ now >= RestartTimeout)
    /\ (last.cmd = "restartCommand" /\ ~Ok(last.out) /\ pc # "done")
       => pc \in FirstBlockPcs
    /\ (last.cmd = "pendingRebootElevatedCommand" /\ ~Ok(last.out) /\ pc # "done")
       => pc \in {"availableSleep", "testRestartCommand"}
    /\ (last.cmd = "abortTestRestartCommand" /\ last.out.transport /\ pc # "done")
       => pc \in {"availableSleep", "testRestartCommand"}
    /\ (pc \in SecondBlockPcs /\ pendingFirst # -1) => pendingFirst <= now

(* Provision failed on a pending reboot check before the timeout had passed
   since the first pending reboot check of the sequence *)
C6_Witness ==
    /\ GaveUp
    /\ ~cancelled
    /\ err.cmd = "pendingRebootElevatedCommand"
    /\ now >= RestartTimeout
    /\ now - pendingFirst < RestartTimeout

(* C6 as stated: each of the three sub-steps has the whole timeout, measured
   from the first attempt of that sub-step, before Provision fails on it. *)
C6_ThreeStepsOwnBudget ==
    (GaveUp /\ ~cancelled)
    => IF err.cmd = "pendingRebootElevatedCommand"
       THEN now - pendingFirst >= RestartTimeout
       ELSE now >= RestartTimeout

(* C7: a successful test restart is followed at once by the abort, and the
   abort is issued only then, never after a failed test restart; a failed
   test restart that does not end the block is retried after one sleep of
   retryableDelay, so that the first success after n failed attempts comes
   with the (n+1)-th test restart and no earlier than n delays after the
   block started. *)
C7_ProbeRetriedThenAbort ==
    /\ [](/\ (last.cmd = "testRestartCommand" /\ Ok(last.out))
             <=> pc = "abortTestRestartCommand"
          /\ (last.cmd = "testRestartCommand" /\ ~Ok(last.out) /\ pc # "done")
             => pc \in {"availableSleep", "testRestartCommand"}
          /\ pc = "abortTestRestartCommand"
             => probes = attempts + 1 /\ now >= attempts * retryableDelay)
    /\ [][(last'.cmd = "abortTestRestartCommand" /\ last.cmd # "abortTestRestartCommand")
          => (last.cmd = "testRestartCommand" /\ Ok(last.out))]_vars
    /\ [][(pc = "availableSleep" /\ pc' # pc)
          => (pc' = "testRestartCommand" /\ now' = now + retryableDelay
              /\ last' = last /\ probes' = probes)]_vars

(* three failed test restarts, then the first successful one *)
C7_Witness ==
    /\ pc = "abortTestRestartCommand"
    /\ attempts = 3
    /\ probes = 4
    /\ pendingFirst = -1

(* C8: a failed forced restart ends Provision only when ctx is done or the
   timeout has expired, and is retried otherwise; a test restart, abort or
   pending reboot check is issued only in a sequence whose forced restart
   exited 0, and the forced restart is issued only while none has. *)
C8_RestartRetriedBeforeProbe ==
    /\ (last.cmd = "restartCommand" /\ ~Ok(last.out))
       => IF pc = "done"
          THEN cancelled \/ now >= RestartTimeout
          ELSE pc \in FirstBlockPcs
    /\ pc \in SecondBlockPcs \cup {"waitAvailable"} => seqRestartOk = 1
    /\ last.cmd \in {"testRestartCommand", "abortTestRestartCommand",
                     "pendingRebootElevatedCommand"} => seqRestartOk = 1
    /\ pc \in FirstBlockPcs => seqRestartOk = 0
    /\ seqRestartOk <= 1

(* the forced restart failed twice and was retried until it exited 0 *)
C8_Witness ==
    /\ pc = "waitAvailable"
    /\ attempts = 3
    /\ seqRestartOk = 1
    /\ ~cancelled

(* A block returned nil and nothing happened since *)
ReturnedNil ==
    \/ pc = "waitAvailable"
    \/ pc = "update" /\ last.cmd = "pendingRebootElevatedCommand"

(* C9, as amended: while ctx is not done, a block gives up only after a
   failure that returns when the timeout has expired; so an action that fails
   n times and then succeeds, the n-th failure returning before the timeout
   has expired, is called n+1 times and the block returns nil, with a sleep of
   retryableDelay before every call but the first (at least n delays in all)
   and no call after the successful one. *)
C9_RetrySucceedsWithinBudget ==
    /\ (GaveUp /\ ~cancelled) => now >= RestartTimeout
    /\ ReturnedNil
       => /\ attempts >= 1
          /\ now >= (attempts - 1) * retryableDelay
          /\ Ok(last.out)
          /\ err = NoErr
    /\ pc \in SleepPcs => attempts >= 1 /\ now >= (attempts - 1) * retryableDelay
    /\ (pc \in RestartPcs \ SleepPcs /\ pc # "waitAvailable")
       => now >= attempts * retryableDelay
    /\ (last.cmd = "restartCommand" /\ Ok(last.out))
       => (pc = "waitAvailable" \/ (pc = "testRestartCommand" /\ attempts = 0))

(* the second block failed twice and succeeded on its third attempt *)
C9_Witness ==
    /\ pc = "update"
    /\ last.cmd = "pendingRebootElevatedCommand"
    /\ attempts = 3
    /\ ~cancelled

(* C9 as stated: a timeout above n delays is enough for the action to be
   called again after its n-th failure, so a block that gave up after n
   failures without ctx done had a timeout of at most n delays. *)
C9_BudgetAboveDelaysSuffices ==
    (GaveUp /\ ~cancelled) => ~(RestartTimeout > attempts * retryableDelay)

(* C10: an attempt starts less than one delay after the timeout expired; the
   number of attempts of a block is bounded by the timeout; after a failure
   that returns when the timeout has expired the block does not sleep again
   but returns the error of that attempt, which Provision returns. *)
C10_AlwaysFailingStopsAfterBudget ==
    /\ pc \in AttemptStartPcs => now < RestartTimeout + retryableDelay
    /\ pc \in RestartPcs \cup {"done"}
       => attempts * retryableDelay < RestartTimeout + 2 * retryableDelay
    /\ pc \in SleepPcs => now < RestartTimeout
    /\ GaveUp
       => /\ err.kind \in {"transport", "status"}
          /\ err.cmd = last.cmd
          /\ ~Ok(last.out)
          /\ ~cancelled => now >= RestartTimeout

(* every forced restart failed until the timeout expired *)
C10_Witness ==
    /\ GaveUp
    /\ ~cancelled
    /\ err.cmd = "restartCommand"
    /\ attempts = 4
    /\ now >= RestartTimeout

(* The error an ordinary failure of the most recent command gives *)
lastCommandError ==
    IF last.out.transport THEN TransportErr(last.cmd)
    ELSE StatusErr(last.cmd, last.out.status)

(* C11 as stated: once ctx has become done while a retryable block was
   running, the block, if it has made an attempt, makes no further one; and
   the error a block returns because ctx is done, the timeout not having
   expired, is none of the errors it returns on a timeout, which are the
   transport and exit status errors of its commands. *)
C11_CancelStopsRetryDistinctly ==
    /\ [][(cancelMid /\ pc \in AttemptStartPcs /\ attempts >= 1) => pc' = pc]_vars
    /\ []((GaveUp /\ cancelMid /\ now < RestartTimeout)
          => err.kind \notin {"transport", "status"})

(* C12 as stated: the error Provision returns when a retryable block gave up,
   on timeout or because ctx is done, is not the error an ordinary failure of
   its last command gives. *)
C12_GiveUpDistinguishable == GaveUp => err # lastCommandError

(* C13 as stated: once ctx is done, Provision makes no update run and starts
   no restart sequence, and it does not return nil. *)
C13_CancelHonouredAtLoop ==
    /\ [][cancelled => /\ nUpdates' = nUpdates
                       /\ (pc' = "restartCommand" => pc \in FirstBlockPcs)]_vars
    /\ [](cancelled => ~Succeeded)

(* C14: the for loop has no cap.  While every update run has exited 101,
   Provision returns only with the error of a retryable block that gave up,
   never nil and never an error of its own; after the k-th complete restart
   sequence it stands before update run k+1, for every k. *)
C14_NoCycleCap ==
    /\ (pc = "done" /\ nUpdates > 0 /\ updateExits[nUpdates] = RestartRequired)
       => GaveUp /\ restartsDone = nUpdates - 1
    /\ (nUpdates > 0 /\ updateExits[nUpdates] = RestartRequired /\ pc # "done")
       => \/ pc \in RestartPcs /\ restartsDone = nUpdates - 1
          \/ pc = "update" /\ restartsDone = nUpdates
    /\ (pc = "update" /\ restartsDone > 0)
       => /\ err = NoErr
          /\ \A i \in 1..restartsDone : updateExits[i] = RestartRequired

(* every update run the model allows has exited 101, no restart sequence
   failed, ctx is not done, and Provision stands before the next update run *)
C14_Witness ==
    /\ pc = "update"
    /\ restartsDone = MaxUpdateRuns
    /\ nUpdates = MaxUpdateRuns
    /\ ~cancelled

(* C18: a restart sequence completes only with a pending-reboot check that
   exited 0, and the update run after it follows that check; a pending-reboot
   check that exited with any other status fails its attempt, which the block
   retries after the delay unless the timeout has expired or ctx is done, and
   then that status is the error returned. *)
C18_PendingZeroCompletes ==
    /\ (pc = "update" /\ restartsDone > 0)
       => last.cmd = "pendingRebootElevatedCommand" /\ Ok(last.out)
    /\ (last.cmd = "pendingRebootElevatedCommand" /\ Ok(last.out)) => pc = "update"
    /\ (last.cmd = "pendingRebootElevatedCommand" /\ ~last.out.transport
          /\ last.out.status # 0)
       => \/ pc = "availableSleep" /\ ~StartTimeoutFired(now)
          \/ pc = "testRestartCommand"
          \/ /\ pc = "done"
             /\ err = StatusErr("pendingRebootElevatedCommand", last.out.status)
             /\ RunGivesUp(now)

(* a pending-reboot check exited 101 and the block is about to probe again *)
C18_Witness ==
    /\ last.cmd = "pendingRebootElevatedCommand"
    /\ ~last.out.transport
    /\ last.out.status = RestartRequired
    /\ pc = "testRestartCommand"
    /\ attempts >= 1

(* C19: inside one attempt of the second block the probe that exited 0 is
   followed directly by the abort, and the abort directly by the
   pending-reboot check: the check is issued only when the command before it
   was the abort of the same attempt, and the abort only when the command
   before it was the probe of that attempt, which exited 0. *)
C19_PendingInSameAttempt ==
    /\ pc = "abortTestRestartCommand"
       <=> (last.cmd = "testRestartCommand" /\ Ok(last.out))
    /\ pc = "abortTestRestartCommand" => probes = attempts + 1
    /\ pc = "pendingRebootElevatedCommand"
       => /\ last.cmd = "abortTestRestartCommand"
          /\ probes = attempts + 1
    /\ last.cmd = "pendingRebootElevatedCommand" => probes = attempts

(* the pending-reboot check of the second attempt is about to be issued *)
C19_Witness ==
    /\ pc = "pendingRebootElevatedCommand"
    /\ attempts = 1
    /\ probes = 2

(* C20: whatever the exit status of abortTestRestartCommand, the closure goes
   on to the pending-reboot check; only an error of its transport fails the
   attempt. *)
C20_AbortStatusNotInspected ==
    /\ (last.cmd = "abortTestRestartCommand" /\ ~last.out.transport)
       => pc = "pendingRebootElevatedCommand"
    /\ (last.cmd = "abortTestRestartCommand" /\ last.out.transport)
       => \/ pc \in {"availableSleep", "testRestartCommand"}
          \/ pc = "done" /\ err = TransportErr("abortTestRestartCommand")

(* the abort exited 1 and the pending-reboot check is about to be issued *)
C20_Witness ==
    /\ last.cmd = "abortTestRestartCommand"
    /\ ~last.out.transport
    /\ last.out.status = 1
    /\ pc = "pendingRebootElevatedCommand"

-----------------------------------------------------------------------------
(* The command encoder: windowsUpdateCommand and the functions it calls *)

(* Bounds of its inputs: pieces in a search criteria string, filters in the
   list *)
MaxStrLen == 2
MaxFilters == 2

(* "'" and ",", and the rune that stands for invalid UTF-8 (utf8.RuneError) *)
Quote == 39
Comma == 44
RuneError == 65533

(* "C:/Windows/Temp/packer-windows-update.ps1" *)
windowsUpdatePath ==
    <<67, 58, 47, 87, 105, 110, 100, 111, 119, 115, 47, 84, 101, 109, 112, 47,
      112, 97, 99, 107, 101, 114, 45, 119, 105, 110, 100, 111, 119, 115, 45,
      117, 112, 100, 97, 116, 101, 46, 112, 115, 49>>

(* " -SearchCriteria ", " -Filters ", " -UpdateLimit " *)
SearchCriteriaFlag ==
    <<32, 45, 83, 101, 97, 114, 99, 104, 67, 114, 105, 116, 101, 114, 105, 97,
      32>>

FiltersFlag == <<32, 45, 70, 105, 108, 116, 101, 114, 115, 32>>

UpdateLimitFlag ==
    <<32, 45, 85, 112, 100, 97, 116, 101, 76, 105, 109, 105, 116, 32>>

(* "PowerShell -ExecutionPolicy Bypass -OutputFormat Text -EncodedCommand " *)
CommandPrefix ==
    <<80, 111, 119, 101, 114, 83, 104, 101, 108, 108, 32, 45, 69, 120, 101,
      99, 117, 116, 105, 111, 110, 80, 111, 108, 105, 99, 121, 32, 66, 121,
      112, 97, 115, 115, 32, 45, 79, 117, 116, 112, 117, 116, 70, 111, 114,
      109, 97, 116, 32, 84, 101, 120, 116, 32, 45, 69, 110, 99, 111, 100, 101,
      100, 67, 111, 109, 109, 97, 110, 100, 32>>

(* Mutant: the single quotes of the value are kept as they are *)
escapePowerShellString_notDoubled(value) == <<Quote>> \o value \o <<Quote>>

(* strings.Replace(value, "'", "''", -1) *)
RECURSIVE Replace(_)
Replace(value) ==
    IF value = <<>> THEN <<>>
    ELSE (IF Head(value) = Quote THEN <<Quote, Quote>> ELSE <<Head(value)>>)
         \o Replace(Tail(value))

escapePowerShellString(value) == <<Quote>> \o Replace(value) \o <<Quote>>

searchCriteriaArgument(searchCriteria) ==
    IF searchCriteria = <<>> THEN <<>>
    ELSE SearchCriteriaFlag \o escapePowerShellString(searchCriteria)

(* the loop of filtersArgument over filters[i..] *)
RECURSIVE JoinFilters(_, _)
JoinFilters(elems, i) ==
    IF i > Len(elems) THEN <<>>
    ELSE (IF i > 1 THEN <<Comma>> ELSE <<>>)
         \o escapePowerShellString(elems[i]) \o JoinFilters(elems, i + 1)

filtersArgument(filters) ==
    IF filters.isNil THEN <<>>
    ELSE FiltersFlag \o JoinFilters(filters.elems, 1)

(* the verb %d of fmt.Sprintf *)
RECURSIVE Digits(_)
Digits(n) ==
    IF n < 10 THEN <<48 + n>> ELSE Digits(n \div 10) \o <<48 + (n % 10)>>

FormatInt(n) == IF n < 0 THEN <<45>> \o Digits(-n) ELSE Digits(n)

(* the string windowsUpdateCommand encodes *)
invocation ==
    windowsUpdatePath
    \o searchCriteriaArgument(config.SearchCriteria)
    \o filtersArgument(config.Filters)
    \o UpdateLimitFlag \o FormatInt(config.UpdateLimit)

(* ss[1] \o ... \o ss[Len(ss)] *)
RECURSIVE ConcatRange(_, _, _)
ConcatRange(ss, lo, hi) ==
    IF lo > hi THEN <<>>
    ELSE IF lo = hi THEN ss[lo]
    ELSE LET mid == (lo + hi) \div 2
         IN  ConcatRange(ss, lo, mid) \o ConcatRange(ss, mid + 1, hi)

Concat(ss) == ConcatRange(ss, 1, Len(ss))

(* []rune(s): s is decoded as UTF-8, and every byte that does not start a
   well-formed encoding becomes RuneError *)
IsByteIn(s, i, lo, hi) == i <= Len(s) /\ s[i] >= lo /\ s[i] <= hi

DecodeRune(s, i) ==
    LET b == s[i]
        c(k) == s[i + k] - 128
    IN  IF b < 128 THEN [rune |-> b, size |-> 1]
        ELSE IF /\ b >= 194 /\ b <= 223
                /\ IsByteIn(s, i + 1, 128, 191)
             THEN [rune |-> (b - 192) * 64 + c(1), size |-> 2]
        ELSE IF /\ b >= 224 /\ b <= 239
                /\ IsByteIn(s, i + 1, IF b = 224 THEN 160 ELSE 128,
                                      IF b = 237 THEN 159 ELSE 191)
                /\ IsByteIn(s, i + 2, 128, 191)
             THEN [rune |-> (b - 224) * 4096 + c(1) * 64 + c(2), size |-> 3]
        ELSE IF /\ b >= 240 /\ b <= 244
                /\ IsByteIn(s, i + 1, IF b = 240 THEN 144 ELSE 128,
                                      IF b = 244 THEN 143 ELSE 191)
                /\ IsByteIn(s, i + 2, 128, 191)
                /\ IsByteIn(s, i + 3, 128, 191)
             THEN [rune |-> (b - 240) * 262144 + c(1) * 4096 + c(2) * 64 + c(3),
                   size |-> 4]
        ELSE [rune |-> RuneError, size |-> 1]

(* byte i belongs to the encoding that starts at one of the three bytes
   before it; such a byte is 0x80..0xBF and starts no encoding itself, and the
   first byte of an encoding of two or more bytes is never inside another *)
InsideRune(s, i) ==
    \E k \in 1..3 : i - k >= 1 /\ DecodeRune(s, i - k).size > k

runes(s) ==
    Concat([i \in 1..Len(s) |->
               IF InsideRune(s, i) THEN <<>> ELSE <<DecodeRune(s, i).rune>>])

(* utf16.Encode: one 16-bit unit per rune, a surrogate pair for a rune above
   0xFFFF *)
EncodeRune(r) ==
    IF (0 <= r /\ r < 55296) \/ (57344 <= r /\ r < 65536) THEN <<r>>
    ELSE IF 65536 <= r /\ r <= 1114111
         THEN <<55296 + (((r - 65536) \div 1024) % 1024), 56320 + ((r - 65536) % 1024)>>
    ELSE <<RuneError>>

utf16Encode(rs) == Concat([i \in 1..Len(rs) |-> EncodeRune(rs[i])])

(* Mutant: the high byte of each unit comes first *)
encodeUtf16Le_bigEndian(s) ==
    LET d == utf16Encode(runes(s))
    IN  [k \in 1..(2 * Len(d)) |->
            IF k % 2 = 1 THEN (d[(k + 1) \div 2] \div 256) % 256
            ELSE d[k \div 2] % 256]

(* b[i*2] = byte(r); b[i*2+1] = byte(r >> 8) *)
encodeUtf16Le(s) ==
    LET d == utf16Encode(runes(s))
    IN  [k \in 1..(2 * Len(d)) |->
            IF k % 2 = 1 THEN d[(k + 1) \div 2] % 256
            ELSE (d[k \div 2] \div 256) % 256]

(* base64.StdEncoding: the characters A-Z a-z 0-9 + / and the padding = *)
Base64Char(v) ==
    IF v < 26 THEN 65 + v
    ELSE IF v < 52 THEN 97 + (v - 26)
    ELSE IF v < 62 THEN 48 + (v - 52)
    ELSE IF v = 62 THEN 43
    ELSE 47

Base64Pad == 61

Pow64(e) == IF e = 0 THEN 1 ELSE IF e = 1 THEN 64 ELSE IF e = 2 THEN 4096 ELSE 262144

EncodeToString(b) ==
    LET n == Len(b)
        at(i) == IF i <= n THEN b[i] ELSE 0
    IN  [k \in 1..(4 * ((n + 2) \div 3)) |->
            LET g == (k - 1) \div 4
                j == (k - 1) % 4
                v == at(3 * g + 1) * 65536 + at(3 * g + 2) * 256 + at(3 * g + 3)
            IN  IF j >= 2 /\ 3 * g + j > n THEN Base64Pad
                ELSE Base64Char((v \div Pow64(3 - j)) % 64)]

windowsUpdateCommand == CommandPrefix \o EncodeToString(encodeUtf16Le(invocation))

(* The strings the model gives to search_criteria and filters: up to
   MaxStrLen pieces, each an ASCII letter, a single quote, a comma, a
   character of two, three or four bytes, or a byte sequence that is not
   UTF-8 *)
Pieces == {<<97>>, <<Quote>>, <<Comma>>, <<195, 169>>, <<226, 130, 172>>,
           <<240, 159, 152, 128>>, <<255>>, <<195>>}

Strings == {Concat(ps) : ps \in UNION {[1..n -> Pieces] : n \in 0..MaxStrLen}}

FilterValues == {<<>>, <<97>>, <<Quote>>, <<Comma>>, <<255>>}

FilterLists ==
    {NilSlice} \cup
    {Slice(fs) : fs \in UNION {[1..n -> FilterValues] : n \in 0..MaxFilters}}

UpdateLimits == {1, 25, 1000}

(* what Prepare can leave in p.config: UpdateLimit is never 0 *)
Configs ==
    {[SearchCriteria |-> s, Filters |-> f, UpdateLimit |-> 1000] :
        s \in Strings, f \in {NilSlice, Slice(<<>>), Slice(<< <<97>> >>)}}
    \cup
    {[SearchCriteria |-> s, Filters |-> f, UpdateLimit |-> n] :
        s \in {<<>>, <<97, Quote>>}, f \in FilterLists, n \in UpdateLimits}

(* Provision is entered with any such configuration *)
InitEncoder ==
    /\ pc = "uploadElevated"
    /\ err = NoErr
    /\ cancelled = FALSE
    /\ RestartTimeout = MaxTimeout
    /\ now = 0
    /\ attempts = 0
    /\ nOps = [c \in Counted |-> 0]
    /\ updateExits = <<>>
    /\ last = NoOp
    /\ restartsDone = 0
    /\ seqRestartOk = 0
    /\ pendingFirst = -1
    /\ probes = 0
    /\ cancelMid = FALSE
    /\ config \in Configs
    /\ command = <<>>

(* Provision builds the command the elevated script is to run *)
WindowsUpdateCommand ==
    /\ pc = "uploadElevated"
    /\ command = <<>>
    /\ command' = windowsUpdateCommand
    /\ UNCHANGED <<pc, err, cancelled, RestartTimeout, now, attempts, nOps,
                   updateExits, last, restartsDone, seqRestartOk, pendingFirst,
                   probes, cancelMid, config>>

NextEncoder == WindowsUpdateCommand

SpecEncoder == InitEncoder /\ [][NextEncoder]_vars

-----------------------------------------------------------------------------
(* Reading the command back *)

HasPrefixAt(s, i, p) ==
    i + Len(p) - 1 <= Len(s) /\ SubSeq(s, i, i + Len(p) - 1) = p

Contains(s, p) == \E i \in 1..(Len(s) + 1) : HasPrefixAt(s, i, p)

(* "-Filters" and "-SearchCriteria" *)
FiltersName == SubSeq(FiltersFlag, 2, Len(FiltersFlag) - 1)

SearchCriteriaName == SubSeq(SearchCriteriaFlag, 2, Len(SearchCriteriaFlag) - 1)

(* A single-quoted literal of s whose opening quote is at i, read the way
   PowerShell reads it: two quotes inside stand for one, a single one ends
   it.  `next` is the position after the closing quote. *)
RECURSIVE LiteralBody(_, _)
LiteralBody(s, i) ==
    IF i > Len(s) THEN [ok |-> FALSE, value |-> <<>>, next |-> i]
    ELSE IF s[i] # Quote
         THEN LET r == LiteralBody(s, i + 1)
              IN  [r EXCEPT !.value = <<s[i]>> \o @]
    ELSE IF i < Len(s) /\ s[i + 1] = Quote
         THEN LET r == LiteralBody(s, i + 2)
              IN  [r EXCEPT !.value = <<Quote>> \o @]
    ELSE [ok |-> TRUE, value |-> <<>>, next |-> i + 1]

ReadLiteral(s, i) ==
    IF i <= Len(s) /\ s[i] = Quote THEN LiteralBody(s, i + 1)
    ELSE [ok |-> FALSE, value |-> <<>>, next |-> i]

(* Literals separated by one comma each, from position i on *)
RECURSIVE ReadList(_, _)
ReadList(s, i) ==
    LET l == ReadLiteral(s, i)
    IN  IF ~l.ok THEN [ok |-> FALSE, values |-> <<>>, next |-> i]
        ELSE IF l.next <= Len(s) /\ s[l.next] = Comma
             THEN LET r == ReadList(s, l.next + 1)
                  IN  [ok |-> r.ok, values |-> <<l.value>> \o r.values, next |-> r.next]
        ELSE [ok |-> TRUE, values |-> <<l.value>>, next |-> l.next]

(* The argument of -EncodedCommand *)
EncodedCommand(c) == SubSeq(c, Len(CommandPrefix) + 1, Len(c))

(* base64 decoding *)
Base64Value(ch) ==
    IF ch >= 65 /\ ch <= 90 THEN ch - 65
    ELSE IF ch >= 97 /\ ch <= 122 THEN ch - 97 + 26
    ELSE IF ch >= 48 /\ ch <= 57 THEN ch - 48 + 52
    ELSE IF ch = 43 THEN 62
    ELSE IF ch = 47 THEN 63
    ELSE 0

Pow256(e) == IF e = 0 THEN 1 ELSE IF e = 1 THEN 256 ELSE 65536

DecodeString(t) ==
    LET n == Len(t)
        pad == IF n = 0 THEN 0
               ELSE IF t[n] # Base64Pad THEN 0
               ELSE IF t[n - 1] # Base64Pad THEN 1
               ELSE 2
    IN  [k \in 1..(3 * (n \div 4) - pad) |->
            LET g == (k - 1) \div 3
                j == (k - 1) % 3
                v == Base64Value(t[4 * g + 1]) * 262144
                     + Base64Value(t[4 * g + 2]) * 4096
                     + Base64Value(t[4 * g + 3]) * 64
                     + Base64Value(t[4 * g + 4])
            IN  (v \div Pow256(2 - j)) % 256]

(* UTF-16LE decoding: bytes to 16-bit units, units to characters *)
Units(b) == [k \in 1..(Len(b) \div 2) |-> b[2 * k - 1] + 256 * b[2 * k]]

utf16Decode(d) ==
    LET high(i) == d[i] >= 55296 /\ d[i] < 56320
        low(i) == d[i] >= 56320 /\ d[i] < 57344
    IN  Concat([i \in 1..Len(d) |->
            IF high(i) /\ i < Len(d) /\ low(i + 1)
            THEN <<65536 + (d[i] - 55296) * 1024 + (d[i + 1] - 56320)>>
            ELSE IF low(i) /\ i > 1 /\ high(i - 1) THEN <<>>
            ELSE IF high(i) \/ low(i) THEN <<RuneError>>
            ELSE <<d[i]>>])

(* the characters as a string again: string(rs) *)
Utf8(r) ==
    IF r < 128 THEN <<r>>
    ELSE IF r < 2048 THEN <<192 + (r \div 64), 128 + (r % 64)>>
    ELSE IF r < 65536
         THEN <<224 + (r \div 4096), 128 + ((r \div 64) % 64), 128 + (r % 64)>>
    ELSE <<240 + (r \div 262144), 128 + ((r \div 4096) % 64),
           128 + ((r \div 64) % 64), 128 + (r % 64)>>

utf8Encode(rs) == Concat([i \in 1..Len(rs) |-> Utf8(rs[i])])

(* what the remote PowerShell runs: the payload of c, decoded *)
Decoded(c) == utf8Encode(utf16Decode(Units(DecodeString(EncodedCommand(c)))))

(* utf8.ValidString *)
ValidString(s) == utf8Encode(runes(s)) = s

-----------------------------------------------------------------------------
(* Claims about the command encoder, under SpecEncoder *)

(* C15 as stated: the string the command encodes has no -Filters when
   Filters is nil or has length 0, and no -SearchCriteria when
   SearchCriteria is empty. *)
C15_NoEmptyValuedFlag ==
    command # <<>>
    => /\ Len(config.Filters.elems) = 0 => ~Contains(Decoded(command), FiltersName)
       /\ config.SearchCriteria = <<>>
          => ~Contains(Decoded(command), SearchCriteriaName)

(* C16: in the string the command encodes, -SearchCriteria is followed by
   one single-quoted literal that reads back as SearchCriteria, and -Filters
   by single-quoted literals, one comma between two of them and none before
   the first or after the last, that read back as the filters in their order. *)
C16_QuotedAndJoined ==
    command # <<>>
    => LET s == invocation
           sc == config.SearchCriteria
           fs == config.Filters.elems
           i0 == Len(windowsUpdatePath) + 1
           lit == ReadLiteral(s, i0 + Len(SearchCriteriaFlag))
           i1 == IF sc = <<>> THEN i0 ELSE lit.next
           lst == ReadList(s, i1 + Len(FiltersFlag))
       IN  /\ sc # <<>>
              => /\ HasPrefixAt(s, i0, SearchCriteriaFlag)
                 /\ lit.ok
                 /\ lit.value = sc
                 /\ HasPrefixAt(s, lit.next, <<32>>)
           /\ fs # <<>>
              => /\ HasPrefixAt(s, i1, FiltersFlag)
                 /\ lst.ok
                 /\ lst.values = fs
                 /\ HasPrefixAt(s, lst.next, UpdateLimitFlag)

(* the command was built from a search criteria that ends with a single
   quote and two filters, one a single quote and one a comma *)
C16_Witness ==
    /\ command # <<>>
    /\ config.SearchCriteria = <<97, Quote>>
    /\ config.Filters = Slice(<< <<Quote>>, <<Comma>> >>)

(* C17 as stated: the payload of the command, base64-decoded and then decoded
   as UTF-16LE, is the string that was encoded, for every configuration. *)
C17_RoundTrip == command # <<>> => Decoded(command) = invocation

(* C17 amended: ... when SearchCriteria and every filter are valid UTF-8. *)
C17_RoundTripValidUTF8 ==
    (/\ command # <<>>
     /\ ValidString(config.SearchCriteria)
     /\ \A i \in 1..Len(config.Filters.elems) : ValidString(config.Filters.elems[i]))
    => Decoded(command) = invocation

(* the command was built from a search criteria of a four-byte character, a
   surrogate pair in UTF-16, and a single quote *)
C17_Witness ==
    /\ command # <<>>
    /\ config.SearchCriteria = <<240, 159, 152, 128, Quote>>
    /\ Decoded(command) = invocation

====
